---- MODULE Spec2Model ----
(***************************************************************************)
(* Model of lambda/index.py: the chat relay handler (lambda_handler), its  *)
(* prompt builder (build_prompt), the upstream call (invoke_model) and the *)
(* lazily initialised process-wide client handle (bedrock_client).         *)
(*                                                                         *)
(* Strings are sequences of tokens: a token is a run of text or a single   *)
(* whitespace character ("\n", " ").  JSON values are records              *)
(* [t, s, l]: t is the JSON type, s the string value, l the list value.    *)
(***************************************************************************)
EXTENDS Integers, Sequences, FiniteSets, TLC

VARIABLES
    bedrock_client,   \* the module global: None or the region the client was built for
    event,            \* the invocation's event
    context,          \* the invocation's context
    upstream,         \* how the upstream endpoint answers this invocation
    pc,               \* position of the running invocation inside lambda_handler
    message,          \* body['message'] once parsed
    messages,         \* the working copy of the conversation history
    prompt,           \* the prompt built by build_prompt
    result,           \* what invoke_model returned
    error,            \* the exception caught by the handler's except clause
    calls,            \* outbound POSTs issued by the running invocation
    sent,             \* the prompt of the last outbound POST of the invocation
    envelope,         \* the value lambda_handler returns
    prevEnvelope,     \* what the previous invocation returned
    repeated,         \* the running invocation has the same inputs as the previous one
    conversation_history, \* body.get('conversationHistory', []) once parsed
    coldStart         \* bedrock_client was None when these inputs were first given

vars == <<bedrock_client, event, context, upstream, pc, message, messages, prompt,
          result, error, calls, sent, envelope, prevEnvelope, repeated, conversation_history,
          coldStart>>

(***************************************************************************)
(* Bounds of the model.                                                    *)
(***************************************************************************)
MaxHist == 2     \* longest conversationHistory an event carries
MaxMsgs == 2     \* longest message list given to build_prompt on its own

(***************************************************************************)
(* JSON values.                                                            *)
(***************************************************************************)
JStr(s)  == [t |-> "str",  s |-> s,    l |-> <<>>]
JList(l) == [t |-> "list", s |-> <<>>, l |-> l]
JNull    == [t |-> "null", s |-> <<>>, l |-> <<>>]
JAbsent  == [t |-> "absent", s |-> <<>>, l |-> <<>>]   \* the key is not there

\* one element of a content list: {"text": ...} (hasText is FALSE for an object
\* without a text key)
TextItem(s) == [hasText |-> TRUE,  text |-> s]

Msg(r, c) == [role |-> r, content |-> c]

None == "None"

(***************************************************************************)
(* Module constants.                                                       *)
(***************************************************************************)
SYSTEM_PROMPT ==
    \* the two lines of the preamble (Japanese text, here by its transliterated
    \* opening words), each ended by a newline
    << "ika wa kaiwa no rireki desu ...", "\n",
       "korera wo shutsuryoku ni fukumezu ...", "\n" >>

Whitespace == {" ", "\n", "\t", "\r"}

\* str.rstrip(): drop the trailing whitespace
RECURSIVE rstrip(_)
rstrip(s) ==
    IF s = <<>> THEN <<>>
    ELSE IF s[Len(s)] \in Whitespace THEN rstrip(SubSeq(s, 1, Len(s) - 1))
    ELSE s

\* "".join(parts)
RECURSIVE concat(_)
concat(parts) ==
    IF parts = <<>> THEN <<>> ELSE Head(parts) \o concat(Tail(parts))

\* "\n".join(lines)
RECURSIVE join_lines(_)
join_lines(lines) ==
    IF lines = <<>> THEN <<>>
    ELSE IF Len(lines) = 1 THEN lines[1]
    ELSE lines[1] \o <<"\n">> \o join_lines(Tail(lines))

USER_LABEL      == <<"yuza">>          \* the katakana label for the user role
ASSISTANT_LABEL == <<"ashisutanto">>   \* the katakana label for the assistant role

\* results of operations that may raise: ok with a value, or the exception
Ok(v)          == [ok |-> TRUE,  val |-> v,    exc |-> "",   msg |-> <<>>]
Raise(exc, m)  == [ok |-> FALSE, val |-> <<>>, exc |-> exc, msg |-> m]

(***************************************************************************)
(* extract_region_from_arn.  An ARN is the sequence of its ":"-separated   *)
(* fields.  re.search finds the leftmost place where a field ending in     *)
(* "arn" is followed by the fields "aws", "lambda", a non-empty field and  *)
(* one more ":" (that is, one more field).                                  *)
(***************************************************************************)
EndsWithArn(f) == f \in {"arn", "xarn"}

MatchAt(arn, i) ==
    /\ i + 4 <= Len(arn)
    /\ EndsWithArn(arn[i])
    /\ arn[i + 1] = "aws"
    /\ arn[i + 2] = "lambda"
    /\ arn[i + 3] # ""

extract_region_from_arn(arn) ==
    IF \E i \in 1..Len(arn) : MatchAt(arn, i)
    THEN LET i == CHOOSE k \in 1..Len(arn) :
                      MatchAt(arn, k) /\ \A j \in 1..(k - 1) : ~MatchAt(arn, j)
         IN  arn[i + 3]
    ELSE "us-east-1"

\* region names of the model that have the format boto3 accepts
HostLabels == {"us-east-1", "us-west-2", "ap-northeast-1", "eu-west-1"}

\* boto3.client('bedrock-runtime', region_name=region): the handle, named by its
\* region, or the error boto3 raises for a region name that is no host label
boto3_client(region) ==
    IF region \in HostLabels
    THEN Ok(region)
    ELSE Raise("InvalidRegionError",
               <<"Provided region_name '", region, "' doesn't match a supported format.">>)

(***************************************************************************)
(* build_prompt                                                            *)
(***************************************************************************)
\* [c.get("text", "") for c in msg.get("content", [])]
texts_of(content) ==
    CASE content.t = "list" ->
           Ok([i \in 1..Len(content.l) |->
                  IF content.l[i].hasText THEN content.l[i].text ELSE <<>>])
      [] content.t = "absent" -> Ok(<<>>)
      [] content.t = "str" ->
           \* iterating a str yields its characters, and a character has no .get
           IF content.s = <<>> THEN Ok(<<>>)
           ELSE Raise("AttributeError", <<"'str' object has no attribute 'get'">>)
      [] OTHER -> Raise("TypeError", <<"'NoneType' object is not iterable">>)

role_label(msg) == IF msg.role = "user" THEN USER_LABEL ELSE ASSISTANT_LABEL

\* the line of one message: f"{role}: {content_str}"
turn_line(msg) == role_label(msg) \o <<": ">> \o concat(texts_of(msg.content).val)

\* mutant of turn_lines: a turn equal to the one before it is left out
turn_lines_deduplicated(msgs) ==
    LET keep == {i \in 1..Len(msgs) : i = 1 \/ msgs[i] # msgs[i - 1]}
        nth(k) == CHOOSE i \in keep : Cardinality({j \in keep : j <= i}) = k
    IN  [k \in 1..Cardinality(keep) |-> turn_line(msgs[nth(k)])]

turn_lines(msgs) == [i \in 1..Len(msgs) |-> turn_line(msgs[i])]

build_prompt(msgs) ==
    IF \E i \in 1..Len(msgs) : ~texts_of(msgs[i].content).ok
    THEN LET i == CHOOSE k \in 1..Len(msgs) :
                      /\ ~texts_of(msgs[k].content).ok
                      /\ \A j \in 1..(k - 1) : texts_of(msgs[j].content).ok
             r == texts_of(msgs[i].content)
         IN  Raise(r.exc, r.msg)
    ELSE Ok(join_lines(<<rstrip(SYSTEM_PROMPT)>> \o turn_lines(msgs)
                       \o <<ASSISTANT_LABEL \o <<": ">> >>))

(***************************************************************************)
(* invoke_model                                                            *)
(***************************************************************************)
Digits == <<"0", "1", "2", "3", "4", "5", "6", "7", "8", "9">>

\* str(n) of a natural number, one token per digit
RECURSIVE IntToStr(_)
IntToStr(n) ==
    IF n < 10 THEN <<Digits[n + 1]>>
    ELSE IntToStr(n \div 10) \o <<Digits[(n % 10) + 1]>>

\* urllib.request.urlopen(req): the response, or URLError when the endpoint is
\* not reached, or HTTPError when the answer's status is outside 200..299
urlopen(up) ==
    IF up.kind = "neterr"
    THEN Raise("URLError", <<"<urlopen error ", "[Errno 111] Connection refused", ">">>)
    ELSE IF up.status < 200 \/ up.status > 299
    THEN Raise("HTTPError", <<"HTTP Error ">> \o IntToStr(up.status) \o <<": ", up.reason>>)
    ELSE Ok(up)

\* the generated result: the answer's JSON body as an object
Result(up) == [hasText |-> up.hasText, generated_text |-> up.text]
NoResult   == [hasText |-> FALSE, generated_text |-> JAbsent]

\* mutant of invoke_model: the status of the answer is not looked at
invoke_model_unchecked(payload, up) ==
    LET resp == urlopen(up)
    IN  IF ~resp.ok THEN Raise(resp.exc, resp.msg)
        ELSE IF ~up.parseable
        THEN Raise("JSONDecodeError", <<"Expecting value: line 1 column 1 (char 0)">>)
        ELSE Ok(Result(up))

invoke_model(payload, up) ==
    LET resp == urlopen(up)
    IN  IF ~resp.ok THEN Raise(resp.exc, resp.msg)
        ELSE IF up.status # 200
        THEN Raise("Exception", <<"API error: ">> \o IntToStr(up.status))
        ELSE IF ~up.parseable
        THEN Raise("JSONDecodeError", <<"Expecting value: line 1 column 1 (char 0)">>)
        ELSE Ok(Result(up))

(***************************************************************************)
(* The inputs of an invocation.                                            *)
(***************************************************************************)
\* well-formed Messages an event's conversationHistory is made of
HistMessages ==
    { Msg("user",      JList(<<TextItem(<<"hello">>)>>)),
      Msg("assistant", JList(<<TextItem(<<"good", " ", "day">>), TextItem(<<"!">>)>>)) }

RECURSIVE SeqsUpTo(_, _)
SeqsUpTo(S, n) ==
    IF n = 0 THEN {<<>>}
    ELSE LET shorter == SeqsUpTo(S, n - 1)
         IN  shorter \cup {Append(q, x) : q \in {r \in shorter : Len(r) = n - 1}, x \in S}

\* the conversationHistory of a body: not there, null, or a list of Messages
Hist(kind, l) == [kind |-> kind, l |-> l]
Histories ==
    {Hist("absent", <<>>), Hist("null", <<>>)}
        \cup {Hist("list", l) : l \in SeqsUpTo(HistMessages, MaxHist)}

\* the values body['message'] takes: not there, strings, a content list, null
MessageValues ==
    { JAbsent, JStr(<<>>), JStr(<<"hi">>), JList(<<TextItem(<<"hi">>)>>), JNull }

\* event['body']: kind "absent" (no body key), "null" (the key holds None),
\* "invalid" (not JSON), "array" (JSON, but no object) or "object"
Body(kind, m, h) == [kind |-> kind, message |-> m, conversationHistory |-> h]
Bodies ==
    { Body(k, JAbsent, Hist("absent", <<>>)) : k \in {"absent", "null", "invalid", "array"} }
        \cup { Body("object", m, h) : m \in MessageValues, h \in Histories }

\* requestContext: not there, with authorizer claims, or an authorizer without claims
RequestContexts == {"absent", "claims", "noclaims"}

Events == [body : Bodies, requestContext : RequestContexts]
NoEvent == [body |-> Body("none", JAbsent, Hist("absent", <<>>)), requestContext |-> "none"]

\* the context object: its invoked_function_arn, or no such attribute
Context(has, arn) == [hasArn |-> has, invoked_function_arn |-> arn]
Contexts ==
    { Context(TRUE,  <<"arn", "aws", "lambda", "ap-northeast-1", "123456789012", "function", "chat">>),
      Context(TRUE,  <<"arn", "aws", "lambda", "us-west-2", "123456789012", "function", "chat">>),
      Context(TRUE,  <<"arn", "aws", "s3", "", "", "bucket">>),
      Context(TRUE,  <<"arn", "aws", "lambda", "eu-west-1">>),
      Context(TRUE,  <<"arn", "aws", "lambda", "not a region", "123456789012", "function", "chat">>),
      Context(FALSE, <<>>) }
NoContext == Context(FALSE, <<"none">>)

\* the upstream endpoint's answer: a network failure, or a status with a body
\* that is JSON or not and holds generated_text or not
Answer(kind, status, reason, parseable, hasText, text) ==
    [kind |-> kind, status |-> status, reason |-> reason, parseable |-> parseable,
     hasText |-> hasText, text |-> text]
Upstreams ==
    { Answer("http", 200, "OK", TRUE, TRUE, JStr(<<"X">>)),
      Answer("http", 200, "OK", TRUE, FALSE, JAbsent),
      Answer("http", 200, "OK", FALSE, FALSE, JAbsent),
      Answer("http", 201, "Created", TRUE, TRUE, JStr(<<"X">>)),
      Answer("http", 404, "Not Found", FALSE, FALSE, JAbsent),
      Answer("http", 503, "Service Unavailable", TRUE, TRUE, JStr(<<"X">>)),
      Answer("neterr", 0, "", FALSE, FALSE, JAbsent) }
NoUpstream == Answer("none", 0, "", FALSE, FALSE, JAbsent)

(***************************************************************************)
(* lambda_handler                                                          *)
(***************************************************************************)
NoError    == [exc |-> "", msg |-> <<>>]
NoPayload  == [prompt |-> <<>>]
NoEnvelope == [statusCode |-> 0]

\* json.dumps(x): the JSON text of x, kept as the value it decodes to
json_dumps(x) == [json |-> x]

\* the headers of the success response
SuccessHeaders ==
    [h \in {"Content-Type", "Access-Control-Allow-Origin",
            "Access-Control-Allow-Headers", "Access-Control-Allow-Methods"} |->
        CASE h = "Content-Type" -> "application/json"
          [] h = "Access-Control-Allow-Origin" -> "*"
          [] h = "Access-Control-Allow-Headers" ->
                 "Content-Type,X-Amz-Date,Authorization,X-Api-Key,X-Amz-Security-Token"
          [] OTHER -> "OPTIONS,POST"]

\* mutant of ErrorHeaders: the error response without the CORS headers
ErrorHeadersContentTypeOnly ==
    [h \in {"Content-Type"} |-> "application/json"]

\* the headers of the error response
ErrorHeaders ==
    [h \in {"Content-Type", "Access-Control-Allow-Origin",
            "Access-Control-Allow-Headers", "Access-Control-Allow-Methods"} |->
        CASE h = "Content-Type" -> "application/json"
          [] h = "Access-Control-Allow-Origin" -> "*"
          [] h = "Access-Control-Allow-Headers" ->
                 "Content-Type,X-Amz-Date,Authorization,X-Api-Key,X-Amz-Security-Token"
          [] OTHER -> "OPTIONS,POST"]

SuccessResponse(assistant_response, msgs) ==
    [statusCode |-> 200,
     headers    |-> SuccessHeaders,
     body       |-> json_dumps([success |-> TRUE,
                                response |-> assistant_response,
                                conversationHistory |-> msgs])]

\* str(error) goes into the body
ErrorResponse(err) ==
    [statusCode |-> 500,
     headers    |-> ErrorHeaders,
     body       |-> json_dumps([success |-> FALSE, error |-> err.msg])]

\* mutant of Caught: "except ClientError" in place of "except Exception"
CaughtClientErrorOnly(exc) == exc \in {"ClientError"}

\* the exception classes "except Exception" catches: every one the handler's
\* steps raise derives from Exception
Caught(exc) ==
    exc \in {"Exception", "KeyError", "TypeError", "AttributeError", "JSONDecodeError",
             "URLError", "HTTPError", "InvalidRegionError"}

\* mutant of Except: a failed upstream call is tried again, up to three times
ExceptRetry(err) ==
    IF pc = "call" /\ calls < 2
    THEN /\ error' = [exc |-> err.exc, msg |-> err.msg]
         /\ envelope' = NoEnvelope
         /\ pc' = "call"
    ELSE /\ error' = [exc |-> err.exc, msg |-> err.msg]
         /\ envelope' = ErrorResponse(err)
         /\ pc' = "done"

\* an exception raised inside the try block: the except clause builds the
\* error response, or the exception leaves the handler
Except(err) ==
    IF Caught(err.exc)
    THEN /\ error' = [exc |-> err.exc, msg |-> err.msg]
         /\ envelope' = ErrorResponse(err)
         /\ pc' = "done"
    ELSE /\ error' = [exc |-> err.exc, msg |-> err.msg]
         /\ envelope' = NoEnvelope
         /\ pc' = "raised"

inputs == <<event, context, upstream, coldStart>>
locals == <<message, conversation_history, messages, prompt, result, calls, sent>>

\* mutant of needs_init: the client is built anew by every invocation
needs_init_always(client) == TRUE

\* "if bedrock_client is None": whether this invocation builds the client
needs_init(client) == client = None

\* mutant of assigned_client: the global is set to the region before boto3 is
\* called, and stays set when the call raises
assigned_client_before_call(r, old, region) == IF r.ok THEN r.val ELSE region

\* the global after "bedrock_client = boto3.client(...)": assigned only when
\* the call returned
assigned_client(r, old, region) == IF r.ok THEN r.val ELSE old

\* mutant of parse_body: body.get('message', '') in place of body['message']
parse_body_default_message(ev) ==
    CASE ev.body.kind = "absent"  -> Raise("KeyError", <<"'body'">>)
      [] ev.body.kind = "null"    ->
             Raise("TypeError",
                   <<"the JSON object must be str, bytes or bytearray, not NoneType">>)
      [] ev.body.kind = "invalid" ->
             Raise("JSONDecodeError", <<"Expecting value: line 1 column 1 (char 0)">>)
      [] ev.body.kind = "array"   ->
             Raise("TypeError", <<"list indices must be integers or slices, not str">>)
      [] OTHER ->
             Ok([message |-> IF ev.body.message.t = "absent" THEN JStr(<<>>)
                             ELSE ev.body.message,
                 conversation_history |->
                     IF ev.body.conversationHistory.kind = "absent"
                     THEN Hist("list", <<>>)
                     ELSE ev.body.conversationHistory])

\* body = json.loads(event['body']); message = body['message'];
\* conversation_history = body.get('conversationHistory', [])
parse_body(ev) ==
    CASE ev.body.kind = "absent"  -> Raise("KeyError", <<"'body'">>)
      [] ev.body.kind = "null"    ->
             Raise("TypeError",
                   <<"the JSON object must be str, bytes or bytearray, not NoneType">>)
      [] ev.body.kind = "invalid" ->
             Raise("JSONDecodeError", <<"Expecting value: line 1 column 1 (char 0)">>)
      [] ev.body.kind = "array"   ->
             Raise("TypeError", <<"list indices must be integers or slices, not str">>)
      [] ev.body.message.t = "absent" -> Raise("KeyError", <<"'message'">>)
      [] OTHER ->
             Ok([message |-> ev.body.message,
                 conversation_history |->
                     IF ev.body.conversationHistory.kind = "absent"
                     THEN Hist("list", <<>>)
                     ELSE ev.body.conversationHistory])

\* the turn appended for the new message
user_turn(m) == Msg("user", m)

\* the turn appended for the generated text
assistant_turn(assistant_response) == Msg("assistant", assistant_response)

request_payload(bedrock_messages) ==
    [prompt |-> bedrock_messages, max_new_tokens |-> 512, temperature |-> "0.7",
     top_p |-> "0.9", do_sample |-> TRUE]

\* the platform calls lambda_handler(event, context)
Invoke(e, c, u) ==
    /\ pc = "idle"
    /\ event' = e /\ context' = c /\ upstream' = u
    /\ pc' = "init"
    /\ coldStart' = (bedrock_client = None)
    /\ UNCHANGED <<bedrock_client, locals, error, envelope, prevEnvelope, repeated>>

\* lines 63-66
InitClient ==
    /\ pc = "init"
    /\ IF ~needs_init(bedrock_client)
       THEN /\ pc' = "auth"
            /\ UNCHANGED <<bedrock_client, error, envelope>>
       ELSE IF ~context.hasArn
       THEN /\ Except(Raise("AttributeError",
                    <<"'NoneType' object has no attribute 'invoked_function_arn'">>))
            /\ UNCHANGED bedrock_client
       ELSE LET region == extract_region_from_arn(context.invoked_function_arn)
                r == boto3_client(region)
            IN  /\ bedrock_client' = assigned_client(r, bedrock_client, region)
                /\ IF r.ok
                   THEN pc' = "auth" /\ UNCHANGED <<error, envelope>>
                   ELSE Except(r)
    /\ UNCHANGED <<inputs, locals, prevEnvelope, repeated>>

\* lines 68-74
Authorize ==
    /\ pc = "auth"
    /\ IF event.requestContext = "noclaims"
       THEN Except(Raise("KeyError", <<"'claims'">>))
       ELSE pc' = "parse" /\ UNCHANGED <<error, envelope>>
    /\ UNCHANGED <<bedrock_client, inputs, locals, prevEnvelope, repeated>>

\* lines 77-82
ParseBody ==
    /\ pc = "parse"
    /\ LET r == parse_body(event)
       IN  IF r.ok
           THEN /\ message' = r.val.message
                /\ conversation_history' = r.val.conversation_history
                /\ pc' = "append"
                /\ UNCHANGED <<error, envelope>>
           ELSE Except(r) /\ UNCHANGED <<message, conversation_history>>
    /\ UNCHANGED <<bedrock_client, inputs, messages, prompt, result, calls, sent,
                   prevEnvelope, repeated>>

\* lines 85-91
AppendUser ==
    /\ pc = "append"
    /\ IF conversation_history.kind = "null"
       THEN /\ Except(Raise("AttributeError",
                    <<"'NoneType' object has no attribute 'copy'">>))
            /\ UNCHANGED messages
       ELSE /\ messages' = Append(conversation_history.l, user_turn(message))
            /\ pc' = "build"
            /\ UNCHANGED <<error, envelope>>
    /\ UNCHANGED <<bedrock_client, inputs, message, conversation_history, prompt, result,
                   calls, sent, prevEnvelope, repeated>>

\* lines 95-105
BuildPrompt ==
    /\ pc = "build"
    /\ LET r == build_prompt(messages)
       IN  IF r.ok
           THEN prompt' = r.val /\ pc' = "call" /\ UNCHANGED <<error, envelope>>
           ELSE Except(r) /\ UNCHANGED prompt
    /\ UNCHANGED <<bedrock_client, inputs, message, conversation_history, messages, result,
                   calls, sent, prevEnvelope, repeated>>

\* line 108: the POST to /generate
CallUpstream ==
    /\ pc = "call"
    /\ calls' = calls + 1
    /\ sent' = request_payload(prompt)
    /\ LET r == invoke_model(request_payload(prompt), upstream)
       IN  IF r.ok
           THEN result' = r.val /\ pc' = "respond" /\ UNCHANGED <<error, envelope>>
           ELSE Except(r) /\ UNCHANGED result
    /\ UNCHANGED <<bedrock_client, inputs, message, conversation_history, messages, prompt,
                   prevEnvelope, repeated>>

\* lines 111-133
Respond ==
    /\ pc = "respond"
    /\ IF ~result.hasText
       THEN Except(Raise("KeyError", <<"'generated_text'">>)) /\ UNCHANGED messages
       ELSE /\ messages' = Append(messages, assistant_turn(result.generated_text))
            /\ envelope' = SuccessResponse(result.generated_text, messages')
            /\ pc' = "done"
            /\ UNCHANGED error
    /\ UNCHANGED <<bedrock_client, inputs, message, conversation_history, prompt, result,
                   calls, sent, prevEnvelope, repeated>>

\* the locals of an invocation that has not started
Reset ==
    /\ message' = JAbsent
    /\ conversation_history' = Hist("absent", <<>>)
    /\ messages' = <<>>
    /\ prompt' = <<>>
    /\ result' = NoResult
    /\ calls' = 0
    /\ sent' = NoPayload
    /\ error' = NoError
    /\ envelope' = NoEnvelope

\* the handler has returned and the process waits for the next invocation
Return ==
    /\ pc = "done"
    /\ pc' = "idle"
    /\ Reset
    /\ event' = NoEvent /\ context' = NoContext /\ upstream' = NoUpstream
    /\ prevEnvelope' = NoEnvelope /\ repeated' = FALSE /\ coldStart' = FALSE
    /\ UNCHANGED bedrock_client

\* the handler has returned and is invoked again with the same event and
\* context, the upstream answering as before
Reinvoke ==
    /\ pc = "done"
    /\ pc' = "init"
    /\ Reset
    /\ prevEnvelope' = envelope /\ repeated' = TRUE
    /\ UNCHANGED <<bedrock_client, inputs>>

\* the module has been loaded: line 18
Init ==
    /\ bedrock_client = None
    /\ pc = "idle"
    /\ message = JAbsent
    /\ conversation_history = Hist("absent", <<>>)
    /\ messages = <<>>
    /\ prompt = <<>>
    /\ result = NoResult
    /\ calls = 0
    /\ sent = NoPayload
    /\ error = NoError
    /\ envelope = NoEnvelope
    /\ event = NoEvent /\ context = NoContext /\ upstream = NoUpstream
    /\ prevEnvelope = NoEnvelope /\ repeated = FALSE /\ coldStart = FALSE

\* any event, any context, any upstream answer
Invocation ==
    /\ pc = "idle"
    /\ \E e \in Events, c \in Contexts, u \in Upstreams : Invoke(e, c, u)

Next ==
    \/ Invocation
    \/ InitClient
    \/ Authorize
    \/ ParseBody
    \/ AppendUser
    \/ BuildPrompt
    \/ CallUpstream
    \/ Respond
    \/ Return
    \/ Reinvoke

Spec == Init /\ [][Next]_vars

(***************************************************************************)
(* build_prompt on its own: any list of well-formed Messages.              *)
(***************************************************************************)
PromptTexts    == { <<"a">>, <<"b", "\n", "c">> }
PromptContents ==
    { JList(<<>>) } \cup { JList(<<TextItem(x)>>) : x \in PromptTexts }
        \cup { JList(<<TextItem(<<"a">>), TextItem(<<"b", "\n", "c">>)>>) }
PromptMessages == { Msg(r, c) : r \in {"user", "assistant", "system"}, c \in PromptContents }

InitPrompt ==
    /\ bedrock_client = None
    /\ pc = "prompt"
    /\ message = JAbsent
    /\ conversation_history = Hist("absent", <<>>)
    /\ messages \in SeqsUpTo(PromptMessages, MaxMsgs)
    /\ prompt = <<>>
    /\ result = NoResult
    /\ calls = 0
    /\ sent = NoPayload
    /\ error = NoError
    /\ envelope = NoEnvelope
    /\ event = NoEvent /\ context = NoContext /\ upstream = NoUpstream
    /\ prevEnvelope = NoEnvelope /\ repeated = FALSE /\ coldStart = FALSE

\* message = build_prompt(sample_messages): line 174
CallBuildPrompt ==
    /\ pc = "prompt"
    /\ LET r == build_prompt(messages)
       IN  IF r.ok
           THEN prompt' = r.val /\ pc' = "built" /\ UNCHANGED error
           ELSE /\ error' = [exc |-> r.exc, msg |-> r.msg]
                /\ pc' = "raised"
                /\ UNCHANGED prompt
    /\ UNCHANGED <<bedrock_client, inputs, message, conversation_history, messages, result,
                   calls, sent, envelope, prevEnvelope, repeated>>

NextPrompt == CallBuildPrompt

SpecPrompt == InitPrompt /\ [][NextPrompt]_vars

(***************************************************************************)
(* The claims.                                                             *)
(***************************************************************************)
Body200 == {"success", "response", "conversationHistory"}
Body500 == {"success", "error"}

IsSuccessEnvelope(env) ==
    /\ env.statusCode = 200
    /\ DOMAIN env.body.json = Body200
    /\ env.body.json.success = TRUE

IsFailureEnvelope(env) ==
    /\ env.statusCode = 500
    /\ DOMAIN env.body.json = Body500
    /\ env.body.json.success = FALSE

\* t occurs in s as a run of consecutive tokens
Mentions(s, t) ==
    \E i \in 1..(Len(s) - Len(t) + 1) : SubSeq(s, i, i + Len(t) - 1) = t

\* C1: whatever the event, the context and the upstream outcome, no exception
\* leaves lambda_handler, and what it returns is either statusCode 200 with
\* body {success: true, response, conversationHistory} or statusCode 500 with
\* body {success: false, error}.
C1_AlwaysAnEnvelope ==
    /\ pc # "raised"
    /\ pc = "done" => IsSuccessEnvelope(envelope) \/ IsFailureEnvelope(envelope)

\* an upstream call that failed on the network ended in the failure envelope
C1_Witness ==
    /\ pc = "done"
    /\ calls = 1
    /\ upstream.kind = "neterr"
    /\ IsFailureEnvelope(envelope)

\* C2 (as claimed): when the message is a string m and the upstream call
\* succeeds with generated_text X, the handler returns success with response X
\* and conversationHistory = H, then {user, [{text: m}]}, then
\* {assistant, [{text: X}]}.
C2_RoundTrip ==
    ( /\ pc = "done"
      /\ calls = 1
      /\ event.body.kind = "object"
      /\ event.body.message.t = "str"
      /\ event.body.conversationHistory.kind \in {"absent", "list"}
      /\ upstream.kind = "http" /\ upstream.status = 200
      /\ upstream.parseable /\ upstream.hasText /\ upstream.text.t = "str" )
    => /\ IsSuccessEnvelope(envelope)
       /\ envelope.body.json.response = upstream.text
       /\ envelope.body.json.conversationHistory =
              event.body.conversationHistory.l
                  \o << Msg("user", JList(<<TextItem(event.body.message.s)>>)),
                        Msg("assistant", JList(<<TextItem(upstream.text.s)>>)) >>

\* the preamble as the prompt carries it: its two lines, no newline after them
Preamble ==
    << "ika wa kaiwa no rireki desu ...", "\n", "korera wo shutsuryoku ni fukumezu ..." >>

Marker == <<"ashisutanto", ": ">>

\* C3 (as claimed): an invocation whose message is a string m and whose history
\* is absent or empty sends a prompt upstream, and that prompt is the preamble,
\* one user line carrying m, and the assistant marker with nothing after it.
\* (Invocations that fail before the body is read are left out.)
C3_PromptOfOneMessage ==
    ( /\ pc = "done"
      /\ bedrock_client # None
      /\ event.requestContext # "noclaims"
      /\ event.body.kind = "object"
      /\ event.body.message.t = "str"
      /\ \/ event.body.conversationHistory.kind = "absent"
         \/ /\ event.body.conversationHistory.kind = "list"
            /\ event.body.conversationHistory.l = <<>> )
    => /\ calls = 1
       /\ sent.prompt = Preamble \o <<"\n", "yuza", ": ">> \o event.body.message.s
                            \o <<"\n">> \o Marker

\* the shapes of a malformed request the claim names: no body (no key, or
\* None under it), a body that is not JSON, a body without message
MalformedRequest(ev) ==
    \/ ev.body.kind = "absent"
    \/ ev.body.kind = "null"
    \/ ev.body.kind = "invalid"
    \/ ev.body.kind = "object" /\ ev.body.message.t = "absent"

\* C4: an event with no body, with a body that is not JSON, or with a body that
\* has no message key ends in statusCode 500, success false and an error
\* string; no exception leaves the handler.
C4_MalformedRequestIs500 ==
    MalformedRequest(event) =>
        /\ pc # "raised"
        /\ pc = "done" => /\ IsFailureEnvelope(envelope)
                          /\ envelope.body.json.error # <<>>

\* a body without a message key was read and answered with the KeyError's text
C4_Witness ==
    /\ pc = "done"
    /\ event.body.kind = "object"
    /\ event.body.message.t = "absent"
    /\ error.exc = "KeyError"
    /\ envelope.body.json.error = <<"'message'">>

\* C5: when the call was made and the upstream answered with a status other
\* than 200, the handler returns 500 / success false, the error string carries
\* the digits of that status, and no assistant turn was produced.
C5_Non200IsUpstreamError ==
    ( /\ pc = "done"
      /\ calls = 1
      /\ upstream.kind = "http"
      /\ upstream.status # 200 )
    => /\ IsFailureEnvelope(envelope)
       /\ Mentions(envelope.body.json.error, IntToStr(upstream.status))
       /\ messages = Append(conversation_history.l, Msg("user", message))
       /\ \A i \in 1..Len(messages) :
              messages[i].role = "assistant" => i <= Len(conversation_history.l)

\* the upstream answered 201 with a usable body, and the handler still failed
C5_Witness ==
    /\ pc = "done"
    /\ calls = 1
    /\ upstream.kind = "http" /\ upstream.status = 201
    /\ upstream.parseable /\ upstream.hasText
    /\ envelope.body.json.error = <<"API error: ", "2", "0", "1">>

CorsHeaders ==
    ("Content-Type" :> "application/json")
        @@ ("Access-Control-Allow-Origin" :> "*")
        @@ ("Access-Control-Allow-Headers" :>
                "Content-Type,X-Amz-Date,Authorization,X-Api-Key,X-Amz-Security-Token")
        @@ ("Access-Control-Allow-Methods" :> "OPTIONS,POST")

\* C6: every response, success or failure, carries the same four headers:
\* Content-Type application/json and the three CORS headers.
C6_SameHeaders ==
    pc = "done" => envelope.headers = CorsHeaders

\* a failure response was returned
C6_Witness ==
    /\ pc = "done"
    /\ envelope.statusCode = 500
    /\ error.exc = "HTTPError"

\* the turn lines the claim expects, each with the newline that precedes it
RECURSIVE ExpectedTurns(_)
ExpectedTurns(msgs) ==
    IF msgs = <<>> THEN <<>>
    ELSE LET n == Len(msgs)
             last == msgs[n]
         IN  ExpectedTurns(SubSeq(msgs, 1, n - 1))
                 \o <<"\n", IF last.role = "user" THEN "yuza" ELSE "ashisutanto", ": ">>
                 \o concat([i \in 1..Len(last.content.l) |-> last.content.l[i].text])

\* C7: for N well-formed Messages build_prompt gives the preamble, one turn
\* line per Message in the given order (user label for role user, assistant
\* label otherwise, then the texts joined with nothing between), and the
\* assistant marker last, with nothing after it.
C7_PromptShape ==
    /\ pc # "raised"
    /\ pc = "built" =>
          /\ prompt = Preamble \o ExpectedTurns(messages) \o <<"\n">> \o Marker
          /\ SubSeq(prompt, Len(prompt) - 1, Len(prompt)) = Marker
          /\ prompt[Len(prompt)] \notin Whitespace

\* a prompt built from two equal turns in a row, both kept
C7_Witness ==
    /\ pc = "built"
    /\ Len(messages) >= 2
    /\ messages[1] = messages[2]
    /\ messages[1].role = "user"
    /\ Len(messages[1].content.l) = 2

ExpectedRegion(arn) ==
    IF /\ Len(arn) >= 5
       /\ arn[1] = "arn" /\ arn[2] = "aws" /\ arn[3] = "lambda"
       /\ arn[4] # ""
    THEN arn[4]
    ELSE "us-east-1"

\* C9: the client handle is written at most once: from None, by the client
\* initialisation of an invocation, to the client of the region of that
\* invocation's ARN (or of the default region); once set it never changes.
C9_WrittenOnce ==
    [][ /\ bedrock_client # None => bedrock_client' = bedrock_client
        /\ bedrock_client = None /\ bedrock_client' # None =>
              /\ pc = "init" /\ pc' = "auth"
              /\ context.hasArn
              /\ bedrock_client' = ExpectedRegion(context.invoked_function_arn)
      ]_vars

\* a later invocation, whose ARN names another region, ran to its end and the
\* handle is still the first one
C9_Witness ==
    /\ pc = "done"
    /\ bedrock_client # None
    /\ context.hasArn
    /\ ExpectedRegion(context.invoked_function_arn) \in HostLabels
    /\ ExpectedRegion(context.invoked_function_arn) # bedrock_client

\* C10: an invocation posts to /generate at most once, only after the body was
\* read and the prompt built, and once it has failed it posts no more and ends
\* with the failure envelope.
C10_NoRetries ==
    /\ [] /\ calls <= 1
          /\ calls = 1 => /\ message.t # "absent"
                          /\ prompt # <<>>
                          /\ sent.prompt = prompt
          /\ error # NoError => pc = "done" /\ IsFailureEnvelope(envelope)
    /\ [][ error # NoError => calls' = calls \/ (calls' = 0 /\ pc' \in {"idle", "init"}) ]_vars

\* the one call failed and the invocation ended
C10_Witness ==
    /\ pc = "done"
    /\ calls = 1
    /\ error.exc \in {"HTTPError", "URLError", "Exception", "JSONDecodeError"}

====
